---- MODULE Spec2Model ----
(***************************************************************************)
(* The backup endpoint of components/backup/src/endpoint.rs:               *)
(*   Runnable::run -> handle_backup_task -> seek_backup_range              *)
(*                 -> dispatch_backup_range (snapshot + pool worker)       *)
(*                 -> receive loop -> BackupResponse stream.               *)
(* Keys are byte strings (sequences of 0..255).  Raw keys are encoded with *)
(* the memcomparable codec before they are compared with region bounds.    *)
(***************************************************************************)
EXTENDS Integers, Sequences, FiniteSets, TLC

VARIABLES
    regions,        \* region_info: the registry, ordered by start key
    storage,        \* what create_storage made of the request's path
    seek_res,       \* what region_info.seek_region returned to the task
    task,           \* Task {start_key, end_key, start_ts, end_ts}
    pc,             \* position of the thread that runs the task
    ranges,         \* BackupRanges sent by seek_backup_range, in order
    next,           \* number of ranges taken from rx by the dispatch loop
    shards,         \* per range: the state of its pipeline (written: the
                    \* batches its SST writer holds)
    res_chan,       \* result channel (res_tx -> res_rx): queued range indexes
    res_tx,         \* TRUE while handle_backup_task holds its own res_tx
    res_rx,         \* TRUE while res_rx is alive
    resp_tx,        \* TRUE while task.resp (the response sender) is alive
    resp_rx,        \* TRUE while the caller holds the response receiver
    responses,      \* responses delivered on the response channel
    emitted,        \* history: range index answered by each response
    sent,           \* history: range indexes in the order their result was sent
    sink            \* file names saved to the external storage

vars == <<regions, storage, seek_res, task, pc, ranges, next, shards, res_chan, res_tx, res_rx,
          resp_tx, resp_rx, responses, emitted, sent, sink>>

----------------------------------------------------------------------------
(* Bounds of the model *)

MaxByte == 2        \* raw keys use the bytes 1..MaxByte
MaxRegions == 2     \* regions of a registry handed to seek_backup_range
MaxShards == 2      \* regions of a registry handed to a whole task
MaxBatches == 1     \* non-empty batches a scanner yields before it is drained
MaxTs == 2          \* timestamps 1..MaxTs
Concurrency == 1    \* cfg.concurrency, the size of the worker pool

----------------------------------------------------------------------------
(* Keys *)

ENC_GROUP_SIZE == 8
ENC_MARKER == 255

Zeros(n) == [i \in 1..n |-> 0]

\* &[u8] ordering: lexicographic, a proper prefix is smaller.
LexLess(a, b) ==
    \E i \in 1..Len(b) :
        /\ \A j \in 1..(i - 1) : j <= Len(a) /\ a[j] = b[j]
        /\ (i > Len(a) \/ a[i] < b[i])

LexLeq(a, b) == a = b \/ LexLess(a, b)

\* Key::from_raw: memcomparable encoding in groups of ENC_GROUP_SIZE bytes,
\* each followed by a marker ENC_MARKER - (number of pad bytes).
RECURSIVE encode_bytes(_)
encode_bytes(k) ==
    IF Len(k) >= ENC_GROUP_SIZE
    THEN SubSeq(k, 1, ENC_GROUP_SIZE) \o <<ENC_MARKER>>
            \o encode_bytes(SubSeq(k, ENC_GROUP_SIZE + 1, Len(k)))
    ELSE k \o Zeros(ENC_GROUP_SIZE - Len(k))
            \o <<ENC_MARKER - (ENC_GROUP_SIZE - Len(k))>>

\* Key::into_raw: decodes group by group; [ok |-> FALSE] is Err.
RECURSIVE decode_bytes(_)
decode_bytes(e) ==
    IF Len(e) < ENC_GROUP_SIZE + 1 THEN [ok |-> FALSE, key |-> <<>>]
    ELSE LET marker == e[ENC_GROUP_SIZE + 1]
             pad == ENC_MARKER - marker
         IN  IF pad > ENC_GROUP_SIZE THEN [ok |-> FALSE, key |-> <<>>]
             ELSE IF pad = 0
             THEN LET rest == decode_bytes(SubSeq(e, ENC_GROUP_SIZE + 2, Len(e)))
                  IN  [ok |-> rest.ok,
                       key |-> SubSeq(e, 1, ENC_GROUP_SIZE) \o rest.key]
             ELSE IF \A j \in (ENC_GROUP_SIZE - pad + 1)..ENC_GROUP_SIZE : e[j] = 0
             THEN [ok |-> TRUE, key |-> SubSeq(e, 1, ENC_GROUP_SIZE - pad)]
             ELSE [ok |-> FALSE, key |-> <<>>]

\* Option<Key>: the key is kept in its encoded form.
NoneKey == [some |-> FALSE, key |-> <<>>]
SomeKey(enc) == [some |-> TRUE, key |-> enc]

\* handle_backup_task: an empty request key is None, otherwise Key::from_raw.
key_from_task(raw) == IF raw = <<>> THEN NoneKey ELSE SomeKey(encode_bytes(raw))

\* key_from_region: an empty region key is None.
key_from_region(region) ==
    [start |-> IF region.start_key = <<>> THEN NoneKey
               ELSE SomeKey(region.start_key),
     end   |-> IF region.end_key = <<>> THEN NoneKey
               ELSE SomeKey(region.end_key)]

----------------------------------------------------------------------------
(* The registry *)

STORE_ID == 1

\* The raw keys of the model, in ascending order: the one-byte keys and one
\* key that extends the last of them beyond one encoding group.
RawKeySeq ==
    [i \in 1..MaxByte |-> <<i>>]
        \o << <<MaxByte>> \o [j \in 1..ENC_GROUP_SIZE |-> 1] >>
RawKeys == {RawKeySeq[i] : i \in 1..Len(RawKeySeq)}

\* MockRegionInfoProvider::set_regions: non-empty bounds are encoded, the
\* peer of the region is on store 1; the role is the registry's.
new_region(id, start_raw, end_raw, role) ==
    [id |-> id,
     start_key |-> IF start_raw = <<>> THEN <<>> ELSE encode_bytes(start_raw),
     end_key |-> IF end_raw = <<>> THEN <<>> ELSE encode_bytes(end_raw),
     version |-> 1,
     peer_store |-> STORE_ID,
     role |-> role]

\* Points 0..N+1 of the key space: 0 is the empty start key, N+1 the empty
\* end key, i in 1..N the raw key RawKeySeq[i].
PointKey(keys, i) == IF i = 0 \/ i = Len(keys) + 1 THEN <<>> ELSE keys[i]

\* Ordered, non-overlapping registries of n regions over the given keys.
RegistriesOf(keys, n, roles) ==
    LET P == 0..(Len(keys) + 1)
        Cuts == {c \in [1..n -> P \X P] :
                    /\ \A k \in 1..n : c[k][1] < c[k][2]
                    /\ \A k \in 1..(n - 1) : c[k][2] <= c[k + 1][1]}
    IN  {[k \in 1..n |-> new_region(k, PointKey(keys, c[k][1]),
                                    PointKey(keys, c[k][2]), r[k])] :
            c \in Cuts, r \in [1..n -> roles]}

Registries(keys, maxn, roles) ==
    UNION {RegistriesOf(keys, n, roles) : n \in 0..maxn}

\* RegionInfoProvider::seek_region: the regions from the first one whose
\* end key is greater than `from` (an empty end key is the greatest).
seek_region(regs, from) ==
    LET After(k) == regs[k].end_key = <<>> \/ LexLess(from, regs[k].end_key)
        Hit == {k \in 1..Len(regs) : After(k)}
    IN  IF Hit = {} THEN <<>>
        ELSE LET first == CHOOSE k \in Hit : \A h \in Hit : k <= h
             IN  SubSeq(regs, first, Len(regs))

----------------------------------------------------------------------------
(* seek_backup_range *)

\* lines 123-132: the walk stops at the first region that starts at or
\* after the request's end key.
reached_end(region, end_key) ==
    end_key.some /\ LexLeq(end_key.key, region.start_key)

\* lines 135-146: the end of the range, clipped to the region.
clip_end(region, end_key) ==
    IF region.end_key = <<>> THEN end_key
    ELSE IF ~end_key.some THEN key_from_region(region).end
    ELSE IF LexLess(end_key.key, region.end_key) THEN end_key
    ELSE key_from_region(region).end

\* clip_start that leaves the request's start key as it is.
clip_start_unclipped(region, start_key) == start_key

\* lines 147-156: the start of the range, clipped to the region.
clip_start(region, start_key) ==
    IF ~start_key.some THEN key_from_region(region).start
    ELSE IF LexLess(start_key.key, region.start_key)
    THEN key_from_region(region).start
    ELSE start_key

\* line 157: assert!(!(skey == ekey && ekey.is_some())).
clip_assert(skey, ekey) == ~(skey = ekey /\ ekey.some)

\* lines 158-164: the work item of a leader region.
new_backup_range(region, skey, ekey) ==
    [start_key |-> skey, end_key |-> ekey, region |-> region,
     leader |-> region.peer_store]

\* lines 121-167: the callback's loop over the iterator; `acc` is what has
\* been sent on tx so far.  A failed assertion unwinds (panicked).
RECURSIVE seek_loop(_, _, _, _, _)
seek_loop(iter, i, start_key, end_key, acc) ==
    IF i > Len(iter) THEN [ranges |-> acc, panicked |-> FALSE]
    ELSE LET region == iter[i] IN
         IF reached_end(region, end_key)
         THEN [ranges |-> acc, panicked |-> FALSE]
         ELSE IF region.role = "Leader"
         THEN LET ekey == clip_end(region, end_key)
                  skey == clip_start(region, start_key)
              IN  IF ~clip_assert(skey, ekey)
                  THEN [ranges |-> acc, panicked |-> TRUE]
                  ELSE seek_loop(iter, i + 1, start_key, end_key,
                                 Append(acc, new_backup_range(region, skey, ekey)))
         ELSE seek_loop(iter, i + 1, start_key, end_key, acc)

\* lines 108-175: seek from the encoded start key (empty when None).
seek_backup_range(regs, start_key, end_key) ==
    LET start_key_ == IF start_key.some THEN start_key.key ELSE <<>>
    IN  seek_loop(seek_region(regs, start_key_), 1, start_key, end_key, <<>>)

----------------------------------------------------------------------------
(* Tasks, results and responses *)

Roles == {"Leader", "Follower"}
BoundKeys == {<<>>} \cup RawKeys
Timestamps == 1..MaxTs

\* The sinks Task::new can resolve and the paths of the model's requests:
\* empty, scheme://dir of a known scheme, and of an unknown one.
Schemes == {"local"}
LocalPath == <<"local", "dir">>
Paths == {<<>>, LocalPath, <<"unknown", "dir">>}

\* create_storage: an empty path and a path of an unknown scheme are errors.
create_storage(path) ==
    IF path = <<>> THEN [state |-> "err", url |-> path]
    ELSE IF path[1] \in Schemes THEN [state |-> "ok", url |-> path]
    ELSE [state |-> "err", url |-> path]

\* The storage of a request before Task::new has run.
no_storage == [state |-> "unset", url |-> <<>>]

\* Task::new: the request's keys and versions.
new_task(start_key, end_key, start_ts, end_ts) ==
    [start_key |-> start_key, end_key |-> end_key,
     start_ts |-> start_ts, end_ts |-> end_ts]

\* format!("{}", n) of an unsigned integer: its decimal digits as ASCII bytes.
RECURSIVE to_string(_)
to_string(n) ==
    IF n < 10 THEN <<48 + n>> ELSE to_string(n \div 10) \o <<48 + (n % 10)>>

\* backup_file_name without the region id.
backup_file_name_no_region(store_id, region) ==
    to_string(store_id) \o <<95>> \o to_string(region.version)

\* backup_file_name: "{store_id}_{region_id}_{epoch.version}" ('_' is 95).
backup_file_name(store_id, region) ==
    to_string(store_id) \o <<95>> \o to_string(region.id) \o <<95>>
        \o to_string(region.version)

\* The pipeline of a range before dispatch_backup_range reaches it.
new_shard == [st |-> "new", worker |-> 0, pending |-> FALSE, written |-> 0,
              res |-> "none", nfiles |-> 0, discarded |-> FALSE]

\* BackupWriter::save: one file per non-empty column family (default,
\* write); key range and versions are not yet filled in.
saved_files(name, n) ==
    [k \in 1..n |-> [name |-> <<name, k>>, start_key |-> <<>>, end_key |-> <<>>,
                     start_version |-> 0, end_version |-> 0]]

\* Error -> ErrorPb: engine (snapshot) errors are region errors, scanner
\* errors are kv errors, everything else is reported by message.
error_pb(res) ==
    CASE res = "snap_err" -> "region_error"
      [] res = "scan_err" -> "kv_error"
      [] OTHER -> "other"

\* into_raw that hands the key out as it is stored, without decoding it.
into_raw_encoded(k) == [ok |-> TRUE, key |-> k.key]

\* lines 282-287: Option<Key> to raw bytes; None is the empty key.
into_raw(k) == IF k.some THEN decode_bytes(k.key) ELSE [ok |-> TRUE, key |-> <<>>]

\* fill_file with the end key taken from the start key.
fill_file_start_twice(file, start_key, end_key, t) ==
    [file EXCEPT !.start_key = start_key, !.end_key = start_key,
                 !.start_version = t.start_ts, !.end_version = t.end_ts]

\* lines 300-305: fill key range and versions of a file.
fill_file(file, start_key, end_key, t) ==
    [file EXCEPT !.start_key = start_key, !.end_key = end_key,
                 !.start_version = t.start_ts, !.end_version = t.end_ts]

\* new_response that keeps the file list of the previous tuple: the files
\* of a response then depend on which range finished before it.
new_response_accumulated(brange, shard, t) ==
    LET start_key == into_raw(brange.start_key).key
        end_key == into_raw(brange.end_key).key
        files == saved_files(backup_file_name(STORE_ID, brange.region), shard.nfiles)
        before == IF responses = <<>> THEN <<>> ELSE responses[Len(responses)].files
    IN  IF shard.res = "ok"
        THEN [start_key |-> start_key, end_key |-> end_key, error |-> "none",
              files |-> before \o [k \in 1..Len(files) |->
                            fill_file(files[k], start_key, end_key, t)]]
        ELSE [start_key |-> start_key, end_key |-> end_key,
              error |-> error_pb(shard.res), files |-> <<>>]

\* new_response that sets a file list on the error arm as well.
new_response_files_on_error(brange, shard, t) ==
    LET start_key == into_raw(brange.start_key).key
        end_key == into_raw(brange.end_key).key
        files == saved_files(backup_file_name(STORE_ID, brange.region), 1)
    IN  [start_key |-> start_key, end_key |-> end_key,
         error |-> IF shard.res = "ok" THEN "none" ELSE error_pb(shard.res),
         files |-> [k \in 1..Len(files) |->
                       fill_file(files[k], start_key, end_key, t)]]

\* lines 288-316: the response for one (brange, res) tuple.
new_response(brange, shard, t) ==
    LET start_key == into_raw(brange.start_key).key
        end_key == into_raw(brange.end_key).key
        files == saved_files(backup_file_name(STORE_ID, brange.region), shard.nfiles)
    IN  IF shard.res = "ok"
        THEN [start_key |-> start_key, end_key |-> end_key, error |-> "none",
              files |-> [k \in 1..Len(files) |->
                            fill_file(files[k], start_key, end_key, t)]]
        ELSE [start_key |-> start_key, end_key |-> end_key,
              error |-> error_pb(shard.res), files |-> <<>>]

\* Senders of the result channel: res_tx itself and the clone moved into
\* each spawned pipeline that has not finished.
InPool(s) == s.st \in {"queued", "running"}
Running == {i \in 1..Len(shards) : shards[i].st = "running"}

\* A pool in which a busy worker takes further work.
idle_workers_any == 1..Concurrency

\* lines 95-98, 203: the pool has cfg.concurrency workers; a worker is idle
\* when no pipeline runs on it.
idle_workers ==
    {w \in 1..Concurrency : \A i \in 1..Len(shards) : shards[i].worker # w}
senders_alive == res_tx \/ \E i \in 1..Len(shards) : InPool(shards[i])

----------------------------------------------------------------------------
(* Initial states *)

InitTask(regs, t, st) ==
    /\ regions = regs
    /\ storage = st
    /\ seek_res = "none"
    /\ task = t
    /\ ranges = <<>>
    /\ next = 0
    /\ shards = <<>>
    /\ res_chan = <<>>
    /\ res_tx = FALSE
    /\ res_rx = FALSE
    /\ resp_tx = TRUE
    /\ resp_rx = TRUE
    /\ responses = <<>>
    /\ emitted = <<>>
    /\ sent = <<>>
    /\ sink = {}

\* The registries of a task: the key space cut at the first n - 1 model
\* keys into n regions, each led by this store or not.
TaskRegistries ==
    {regs \in Registries(RawKeySeq, MaxShards, Roles) :
        /\ Len(regs) > 0
        /\ regs[1].start_key = <<>>
        /\ regs[Len(regs)].end_key = <<>>
        /\ \A k \in 1..(Len(regs) - 1) :
              /\ regs[k].end_key = encode_bytes(RawKeySeq[k])
              /\ regs[k + 1].start_key = regs[k].end_key}

\* The requests of a task: the whole key space, or bounded by the first and
\* the last model key in either order, or by the first key on both sides.
TaskBounds ==
    LET lo == RawKeySeq[1]
        hi == RawKeySeq[Len(RawKeySeq)]
    IN  {<< <<>>, <<>> >>, <<lo, hi>>, <<hi, lo>>, <<lo, lo>>}

\* A task scheduled on the endpoint, backing up at MaxTs.
Init ==
    /\ pc = "run"
    /\ \E regs \in TaskRegistries, b \in TaskBounds, ts \in Timestamps :
            InitTask(regs, new_task(b[1], b[2], ts, MaxTs), create_storage(LocalPath))

\* A request for which Task::new has not run yet.
InitNew ==
    /\ pc = "new"
    /\ \E regs \in TaskRegistries, b \in TaskBounds, ts \in Timestamps :
            InitTask(regs, new_task(b[1], b[2], ts, MaxTs), no_storage)

\* seek_backup_range called on its own (tests::test_seek_range, closure t).
InitSeek ==
    /\ pc = "seek"
    /\ \E regs \in Registries(RawKeySeq, MaxRegions, Roles),
          s \in BoundKeys, e \in BoundKeys :
            InitTask(regs, new_task(s, e, 1, 1), create_storage(LocalPath))

----------------------------------------------------------------------------
(* Runnable::run and handle_backup_task, on the thread that runs the task *)

\* is_full_backup without the comparison: every task is handled.
always_full(t) == TRUE

\* line 333: only a task with start_ts == end_ts is handled.
is_full_backup(t) == t.start_ts = t.end_ts

\* res_tx_after_dispatch without the drop: the sender stays alive.
res_tx_kept == TRUE

\* line 278: drop(res_tx); what is left of the task's own sender.
res_tx_after_dispatch == FALSE

\* TaskNewFailed without the `?`: the task is built and scheduled although
\* no storage was created.
TaskNewFailedScheduled ==
    /\ pc = "new"
    /\ \E path \in Paths :
          /\ create_storage(path).state = "err"
          /\ storage' = create_storage(path)
    /\ pc' = "run"
    /\ UNCHANGED <<regions, seek_res, task, ranges, next, shards, res_chan,
                   res_tx, res_rx, resp_tx, resp_rx, responses, emitted, sent,
                   sink>>

\* lines 58-63: create_storage fails; Task::new returns the error, no task
\* exists and the response sender it was given is dropped.
TaskNewFailed ==
    /\ pc = "new"
    /\ \E path \in Paths :
          /\ create_storage(path).state = "err"
          /\ storage' = create_storage(path)
    /\ pc' = "rejected"
    /\ resp_tx' = FALSE
    /\ UNCHANGED <<regions, seek_res, task, ranges, next, shards, res_chan,
                   res_tx, res_rx, resp_rx, responses, emitted, sent, sink>>

\* lines 58-71: Task::new succeeds and the task is scheduled.
TaskNew ==
    /\ pc = "new"
    /\ \E path \in Paths :
          /\ create_storage(path).state = "ok"
          /\ storage' = create_storage(path)
    /\ pc' = "run"
    /\ UNCHANGED <<regions, seek_res, task, ranges, next, shards, res_chan,
                   res_tx, res_rx, resp_tx, resp_rx, responses, emitted, sent,
                   sink>>

\* tests::test_seek_range, closure t: seek_backup_range on its own.
SeekBackupRange ==
    /\ pc = "seek"
    /\ LET r == seek_backup_range(regions, key_from_task(task.start_key),
                                  key_from_task(task.end_key))
       IN  /\ ranges' = r.ranges
           /\ pc' = IF r.panicked THEN "panicked" ELSE "sought"
    /\ seek_res' = "ok"
    /\ UNCHANGED <<regions, storage, task, next, shards, res_chan, res_tx, res_rx,
                   resp_tx, resp_rx, responses, emitted, sent, sink>>

\* lines 335-338: an incremental task is logged and dropped.
RunIncremental ==
    /\ pc = "run"
    /\ ~is_full_backup(task)
    /\ pc' = "done"
    /\ resp_tx' = FALSE
    /\ UNCHANGED <<regions, storage, seek_res, task, ranges, next, shards, res_chan, res_tx,
                   res_rx, resp_rx, responses, emitted, sent, sink>>

\* lines 256-271: the keys of the task, the enumeration, the result channel.
RunFull ==
    /\ pc = "run"
    /\ is_full_backup(task)
    /\ LET r == seek_backup_range(regions, key_from_task(task.start_key),
                                  key_from_task(task.end_key))
       IN  /\ ranges' = r.ranges
           /\ IF r.panicked
              THEN /\ pc' = "panicked"
                   /\ resp_tx' = FALSE
                   /\ UNCHANGED <<shards, res_tx, res_rx>>
              ELSE /\ pc' = "dispatch"
                   /\ shards' = [i \in 1..Len(r.ranges) |-> new_shard]
                   /\ res_tx' = TRUE
                   /\ res_rx' = TRUE
                   /\ UNCHANGED resp_tx
    /\ seek_res' = "ok"
    /\ UNCHANGED <<regions, storage, task, next, res_chan, resp_rx, responses,
                   emitted, sent, sink>>

\* RunFullSeekFailed with a registry that ran the callback before it failed.
RunFullSeekFailedLate ==
    /\ pc = "run"
    /\ is_full_backup(task)
    /\ LET r == seek_backup_range(regions, key_from_task(task.start_key),
                                  key_from_task(task.end_key))
       IN  /\ ~r.panicked
           /\ ranges' = r.ranges
           /\ shards' = [i \in 1..Len(r.ranges) |-> new_shard]
    /\ seek_res' = "err"
    /\ pc' = "dispatch"
    /\ res_tx' = TRUE
    /\ res_rx' = TRUE
    /\ UNCHANGED <<regions, storage, task, next, res_chan, resp_tx, resp_rx,
                   responses, emitted, sent, sink>>

\* lines 116-119, 170-174, 268-271: seek_region fails before it runs the
\* callback; the callback and its tx are dropped, the error is logged and
\* rx yields no range.
RunFullSeekFailed ==
    /\ pc = "run"
    /\ is_full_backup(task)
    /\ seek_res' = "err"
    /\ ranges' = <<>>
    /\ shards' = <<>>
    /\ pc' = "dispatch"
    /\ res_tx' = TRUE
    /\ res_rx' = TRUE
    /\ UNCHANGED <<regions, storage, task, next, res_chan, resp_tx, resp_rx,
                   responses, emitted, sent, sink>>

\* lines 194-203: the snapshot is taken and the pipeline is spawned.
DispatchSpawn ==
    /\ pc = "dispatch"
    /\ next < Len(ranges)
    /\ next' = next + 1
    /\ shards' = [shards EXCEPT ![next + 1].st = "queued"]
    /\ UNCHANGED <<regions, storage, seek_res, task, pc, ranges, res_chan, res_tx, res_rx,
                   resp_tx, resp_rx, responses, emitted, sent, sink>>

\* snapshot_failed without the return: the pipeline is spawned all the same.
snapshot_failed_spawned(s) == [s EXCEPT !.st = "queued", !.res = "snap_err"]

\* lines 196-199: the pipeline of a range whose snapshot failed: it returns
\* with the error as its result.
snapshot_failed(s) == [s EXCEPT !.st = "done", !.res = "snap_err"]

\* lines 196-199: the snapshot fails; the error is sent on tx at once.
DispatchSnapshotFailed ==
    /\ pc = "dispatch"
    /\ next < Len(ranges)
    /\ next' = next + 1
    /\ shards' = [shards EXCEPT ![next + 1] = snapshot_failed(@)]
    /\ res_chan' = Append(res_chan, next + 1)
    /\ sent' = Append(sent, next + 1)
    /\ UNCHANGED <<regions, storage, seek_res, task, pc, ranges, res_tx, res_rx, resp_tx,
                   resp_rx, responses, emitted, sink>>

\* lines 277-278: every range is dispatched; the extra sender is dropped.
DropResTx ==
    /\ pc = "dispatch"
    /\ next = Len(ranges)
    /\ res_tx' = res_tx_after_dispatch
    /\ pc' = "recv"
    /\ UNCHANGED <<regions, storage, seek_res, task, ranges, next, shards, res_chan, res_rx,
                   resp_tx, resp_rx, responses, emitted, sent, sink>>

\* recv taking the newest queued tuple instead of the oldest.
recv_newest(chan) ==
    [item |-> chan[Len(chan)], rest |-> SubSeq(chan, 1, Len(chan) - 1)]

\* recv that discards whatever else is queued behind the oldest tuple.
recv_skip(chan) == [item |-> Head(chan), rest |-> <<>>]

\* line 281: `for (brange, res) in res_rx` takes the oldest queued tuple.
recv(chan) == [item |-> Head(chan), rest |-> Tail(chan)]

\* RecvSend that answers a queued tuple while the dispatch loop still runs.
RecvSendEager ==
    /\ pc \in {"dispatch", "recv"}
    /\ res_chan # <<>>
    /\ resp_rx
    /\ LET i == recv(res_chan).item IN
       /\ responses' = Append(responses, new_response(ranges[i], shards[i], task))
       /\ emitted' = Append(emitted, i)
       /\ res_chan' = recv(res_chan).rest
    /\ UNCHANGED <<regions, storage, seek_res, task, pc, ranges, next, shards,
                   res_tx, res_rx, resp_tx, resp_rx, sent, sink>>

\* lines 281-317: one tuple is received, its response is sent.
RecvSend ==
    /\ pc = "recv"
    /\ res_chan # <<>>
    /\ resp_rx
    /\ LET i == recv(res_chan).item IN
       IF into_raw(ranges[i].start_key).ok /\ into_raw(ranges[i].end_key).ok
       THEN /\ responses' = Append(responses, new_response(ranges[i], shards[i], task))
            /\ emitted' = Append(emitted, i)
            /\ res_chan' = recv(res_chan).rest
            /\ UNCHANGED <<pc, res_rx, resp_tx>>
       ELSE /\ pc' = "panicked"
            /\ res_chan' = <<>>
            /\ res_rx' = FALSE
            /\ resp_tx' = FALSE
            /\ UNCHANGED <<responses, emitted>>
    /\ UNCHANGED <<regions, storage, seek_res, task, ranges, next, shards, res_tx, resp_rx,
                   sent, sink>>

\* lines 317-320: the caller is gone; the loop breaks and the task ends.
RecvSendFailed ==
    /\ pc = "recv"
    /\ res_chan # <<>>
    /\ ~resp_rx
    /\ LET i == recv(res_chan).item IN
       pc' = IF into_raw(ranges[i].start_key).ok /\ into_raw(ranges[i].end_key).ok
             THEN "done" ELSE "panicked"
    /\ res_chan' = <<>>
    /\ res_rx' = FALSE
    /\ resp_tx' = FALSE
    /\ UNCHANGED <<regions, storage, seek_res, task, ranges, next, shards, res_tx, resp_rx,
                   responses, emitted, sent, sink>>

\* line 281: the channel is empty and every sender is gone; lines 322-327.
RecvEnd ==
    /\ pc = "recv"
    /\ res_chan = <<>>
    /\ ~senders_alive
    /\ pc' = "done"
    /\ res_rx' = FALSE
    /\ resp_tx' = FALSE
    /\ UNCHANGED <<regions, storage, seek_res, task, ranges, next, shards, res_chan, res_tx,
                   resp_rx, responses, emitted, sent, sink>>

\* The caller drops the receiver of the response channel.
CallerDrop ==
    /\ pc \in {"run", "dispatch", "recv"}
    /\ resp_rx
    /\ resp_rx' = FALSE
    /\ UNCHANGED <<regions, storage, seek_res, task, pc, ranges, next, shards, res_chan, res_tx,
                   res_rx, resp_tx, responses, emitted, sent, sink>>

----------------------------------------------------------------------------
(* The pipeline of one range, on a worker of the pool (lines 203-253) *)

\* send_result that sends Ok results only: an error ends the pipeline
\* without a tuple.
send_result_ok_only(i, s) ==
    /\ shards' = [shards EXCEPT ![i] = s]
    /\ IF res_rx /\ s.res = "ok"
       THEN res_chan' = Append(res_chan, i) /\ sent' = Append(sent, i)
       ELSE UNCHANGED <<res_chan, sent>>

\* send_result that unwraps the send: the worker panics when res_rx is gone.
send_result_unwrap(i, s) ==
    IF res_rx
    THEN /\ shards' = [shards EXCEPT ![i] = s]
         /\ res_chan' = Append(res_chan, i)
         /\ sent' = Append(sent, i)
    ELSE /\ shards' = [shards EXCEPT ![i] = [s EXCEPT !.st = "panicked"]]
         /\ UNCHANGED <<res_chan, sent>>

\* tx.send((brange, res)): queued while res_rx is alive, an Err otherwise
\* (mapped to () by the pipeline).
send_result(i, s) ==
    /\ shards' = [shards EXCEPT ![i] = s]
    /\ IF res_rx
       THEN res_chan' = Append(res_chan, i) /\ sent' = Append(sent, i)
       ELSE UNCHANGED <<res_chan, sent>>

\* The pipeline returns: its writer is dropped with the batches it holds,
\* which are lost (discarded) unless they were saved.
finished(s, res, nfiles) ==
    [s EXCEPT !.st = "done", !.worker = 0, !.pending = FALSE, !.res = res,
              !.nfiles = nfiles, !.written = 0,
              !.discarded = (res # "ok" /\ (s.written > 0 \/ s.pending))]

\* lines 204-217: an idle pool worker picks the pipeline up; the writer is
\* built.
WorkerStart(i) ==
    /\ i \in 1..Len(shards)
    /\ shards[i].st = "queued"
    /\ \E w \in idle_workers :
          shards' = [shards EXCEPT ![i].st = "running", ![i].worker = w]
    /\ UNCHANGED <<regions, storage, seek_res, task, pc, ranges, next, res_chan, res_tx, res_rx,
                   resp_tx, resp_rx, responses, emitted, sent, sink>>

\* lines 217-222: BackupWriter::new fails.
WorkerWriterFailed(i) ==
    /\ i \in 1..Len(shards)
    /\ shards[i].st = "queued"
    /\ idle_workers # {}
    /\ send_result(i, finished(shards[i], "writer_err", 0))
    /\ UNCHANGED <<regions, storage, seek_res, task, pc, ranges, next, res_tx, res_rx, resp_tx,
                   resp_rx, responses, emitted, sink>>

\* WorkerScanFailed that saves what the writer holds before it reports
\* the scan error.
WorkerScanFailedSaved(i) ==
    /\ i \in 1..Len(shards)
    /\ shards[i].st = "running"
    /\ ~shards[i].pending
    /\ send_result(i, finished(shards[i], "scan_err", 0))
    /\ sink' = sink \cup {backup_file_name(STORE_ID, ranges[i].region)}
    /\ UNCHANGED <<regions, storage, seek_res, task, pc, ranges, next, res_tx, res_rx, resp_tx,
                   resp_rx, responses, emitted>>

\* lines 226-229: scan_entries fails.
WorkerScanFailed(i) ==
    /\ i \in 1..Len(shards)
    /\ shards[i].st = "running"
    /\ ~shards[i].pending
    /\ send_result(i, finished(shards[i], "scan_err", 0))
    /\ UNCHANGED <<regions, storage, seek_res, task, pc, ranges, next, res_tx, res_rx, resp_tx,
                   resp_rx, responses, emitted, sink>>

\* lines 226-232: scan_entries returns a non-empty batch.
WorkerScan(i) ==
    /\ i \in 1..Len(shards)
    /\ shards[i].st = "running"
    /\ ~shards[i].pending
    /\ shards[i].written < MaxBatches
    /\ shards' = [shards EXCEPT ![i].pending = TRUE]
    /\ UNCHANGED <<regions, storage, seek_res, task, pc, ranges, next, res_chan, res_tx, res_rx,
                   resp_tx, resp_rx, responses, emitted, sent, sink>>

\* WorkerWrite on a thread other than the worker that started the pipeline.
WorkerWriteElsewhere(i) ==
    /\ i \in 1..Len(shards)
    /\ shards[i].st = "running"
    /\ shards[i].pending
    /\ shards' = [shards EXCEPT ![i].written = @ + 1, ![i].pending = FALSE,
                                ![i].worker = 0]
    /\ UNCHANGED <<regions, storage, seek_res, task, pc, ranges, next, res_chan,
                   res_tx, res_rx, resp_tx, resp_rx, responses, emitted, sent,
                   sink>>

\* lines 234-238: the batch is written to the SSTs and drained.
WorkerWrite(i) ==
    /\ i \in 1..Len(shards)
    /\ shards[i].st = "running"
    /\ shards[i].pending
    /\ shards' = [shards EXCEPT ![i].written = @ + 1, ![i].pending = FALSE]
    /\ UNCHANGED <<regions, storage, seek_res, task, pc, ranges, next, res_chan, res_tx, res_rx,
                   resp_tx, resp_rx, responses, emitted, sent, sink>>

\* lines 235-238: writer.write fails on a non-empty batch.
WorkerWriteFailed(i) ==
    /\ i \in 1..Len(shards)
    /\ shards[i].st = "running"
    /\ shards[i].pending
    /\ send_result(i, finished(shards[i], "write_err", 0))
    /\ UNCHANGED <<regions, storage, seek_res, task, pc, ranges, next, res_tx, res_rx, resp_tx,
                   resp_rx, responses, emitted, sink>>

\* Files a save returns: none from empty writers, else one per column
\* family that was written.
file_counts(written) == IF written = 0 THEN {0} ELSE {1, 2}

\* WorkerSave that does not wait for the batch in hand to be written.
WorkerSaveEarly(i) ==
    /\ i \in 1..Len(shards)
    /\ shards[i].st = "running"
    /\ \E n \in file_counts(shards[i].written) :
          send_result(i, finished(shards[i], "ok", n))
    /\ sink' = sink \cup {backup_file_name(STORE_ID, ranges[i].region)}
    /\ UNCHANGED <<regions, storage, seek_res, task, pc, ranges, next, res_tx,
                   res_rx, resp_tx, resp_rx, responses, emitted>>

\* lines 230-232, 244-252: the batch is empty and the loop ends; the files
\* are saved to the storage and the result is sent.
WorkerSave(i) ==
    /\ i \in 1..Len(shards)
    /\ shards[i].st = "running"
    /\ ~shards[i].pending
    /\ \E n \in file_counts(shards[i].written) :
          send_result(i, finished(shards[i], "ok", n))
    /\ sink' = sink \cup {backup_file_name(STORE_ID, ranges[i].region)}
    /\ UNCHANGED <<regions, storage, seek_res, task, pc, ranges, next, res_tx, res_rx, resp_tx,
                   resp_rx, responses, emitted>>

\* lines 230-232, 246-249: the loop ends and writer.save fails.
WorkerSaveFailed(i) ==
    /\ i \in 1..Len(shards)
    /\ shards[i].st = "running"
    /\ ~shards[i].pending
    /\ send_result(i, finished(shards[i], "save_err", 0))
    /\ UNCHANGED <<regions, storage, seek_res, task, pc, ranges, next, res_tx, res_rx, resp_tx,
                   resp_rx, responses, emitted, sink>>

Worker(i) ==
    \/ WorkerStart(i)
    \/ WorkerWriterFailed(i)
    \/ WorkerScanFailed(i)
    \/ WorkerScan(i)
    \/ WorkerWrite(i)
    \/ WorkerWriteFailed(i)
    \/ WorkerSave(i)
    \/ WorkerSaveFailed(i)

Orchestrator ==
    \/ RunIncremental
    \/ RunFull
    \/ RunFullSeekFailed
    \/ DispatchSpawn
    \/ DispatchSnapshotFailed
    \/ DropResTx
    \/ RecvSend
    \/ RecvSendFailed
    \/ RecvEnd

----------------------------------------------------------------------------
(* Specifications *)

Next ==
    \/ Orchestrator
    \/ CallerDrop
    \/ \E i \in 1..MaxShards : Worker(i)

Spec == Init /\ [][Next]_vars

\* The task's thread and the pool workers are scheduled fairly.
FairSpec ==
    /\ Spec
    /\ WF_vars(Orchestrator)
    /\ \A i \in 1..MaxShards : WF_vars(Worker(i))

SeekNext == SeekBackupRange

\* A request from its construction on.
NextNew ==
    \/ TaskNew
    \/ TaskNewFailed
    \/ Next

SpecNew == InitNew /\ [][NextNew]_vars

SpecSeek == InitSeek /\ [][SeekNext]_vars

----------------------------------------------------------------------------
(* Bounds of key ranges: a start of None is -infinity, an end of None is  *)
(* +infinity.                                                              *)

RequestStart == key_from_task(task.start_key)
RequestEnd == key_from_task(task.end_key)
RegionStart(r) == IF r.start_key = <<>> THEN NoneKey ELSE SomeKey(r.start_key)
RegionEnd(r) == IF r.end_key = <<>> THEN NoneKey ELSE SomeKey(r.end_key)

\* lo1 <= lo2 as starts, hi1 <= hi2 as ends, lo < hi as a start and an end.
StartLeq(a, b) == ~a.some \/ (b.some /\ LexLeq(a.key, b.key))
EndLeq(a, b) == ~b.some \/ (a.some /\ LexLeq(a.key, b.key))
StartBeforeEnd(lo, hi) == ~lo.some \/ ~hi.some \/ LexLess(lo.key, hi.key)

MaxStart(a, b) == IF StartLeq(a, b) THEN b ELSE a
MinEnd(a, b) == IF EndLeq(a, b) THEN a ELSE b

Sought == pc \in {"sought", "panicked"}
RangePairs == [i \in 1..Len(ranges) |-> <<ranges[i].start_key, ranges[i].end_key>>]

\* The intersection of region k with the request, and whether region k is a
\* locally led region that meets the request.
Clipped(k) == <<MaxStart(RequestStart, RegionStart(regions[k])),
                MinEnd(RequestEnd, RegionEnd(regions[k]))>>
Expected == {k \in 1..Len(regions) :
                /\ regions[k].role = "Leader"
                /\ StartBeforeEnd(Clipped(k)[1], Clipped(k)[2])}

\* C1: once seek_backup_range has run, the multiset of (clipped_start,
\* clipped_end) pairs it has emitted is the multiset of the non-empty
\* intersections of the request with the locally led regions.
C1_EmittedIsIntersection ==
    Sought =>
        \A p \in {RangePairs[i] : i \in 1..Len(ranges)}
                    \cup {Clipped(k) : k \in Expected} :
            Cardinality({i \in 1..Len(ranges) : RangePairs[i] = p})
                = Cardinality({k \in Expected : Clipped(k) = p})

\* C1 on the requests whose start key is below their end key.
RequestOrdered == StartBeforeEnd(RequestStart, RequestEnd)
C1_OrderedRequest == RequestOrdered => C1_EmittedIsIntersection

\* C2: every emitted BackupRange has clipped_start < clipped_end and lies
\* inside the request range and inside the range of its region.
C2_RangeNonEmptyAndContained ==
    Sought =>
        \A i \in 1..Len(ranges) :
            LET r == ranges[i] IN
            /\ StartBeforeEnd(r.start_key, r.end_key)
            /\ StartLeq(RequestStart, r.start_key)
            /\ EndLeq(r.end_key, RequestEnd)
            /\ StartLeq(RegionStart(r.region), r.start_key)
            /\ EndLeq(r.end_key, RegionEnd(r.region))

C2_OrderedRequest == RequestOrdered => C2_RangeNonEmptyAndContained

----------------------------------------------------------------------------
(* The response stream *)

Done == pc = "done"
RawStart(i) == into_raw(ranges[i].start_key).key
RawEnd(i) == into_raw(ranges[i].end_key).key
Answers(i) == {k \in 1..Len(emitted) : emitted[k] = i}
FileName(i) == backup_file_name(STORE_ID, ranges[i].region)

\* C3: a task never emits more responses than seek_backup_range enumerated
\* ranges, never two for one range, and when handle_backup_task has returned
\* and the caller still holds the stream it has emitted exactly one response
\* per enumerated range, whatever the outcome of each range.
C3_OneResponsePerRange ==
    /\ Len(responses) <= Len(ranges)
    /\ Len(emitted) = Len(responses)
    /\ \A i \in 1..Len(ranges) : Cardinality(Answers(i)) <= 1
    /\ (Done /\ resp_rx) =>
          /\ Len(responses) = Len(ranges)
          /\ \A i \in 1..Len(ranges) : Cardinality(Answers(i)) = 1

\* A finished task whose two ranges ended differently (one failed, one
\* succeeded), the caller still listening.
C3_Witness ==
    /\ Done /\ resp_rx
    /\ Len(ranges) >= 2
    /\ \E j, k \in 1..Len(responses) :
          responses[j].error = "none" /\ responses[k].error # "none"

\* C4: once the ranges are enumerated, handle_backup_task returns and the
\* response sender is dropped, under fair scheduling of the task's thread and
\* of the pool workers.
C4_TaskTerminates == (pc = "dispatch") ~> (Done /\ ~resp_tx /\ ~res_rx)

\* The receive loop waits on the empty result channel for pipelines that
\* still hold a sender, after the task's own sender is dropped.
C4_Witness ==
    /\ pc = "recv"
    /\ ~res_tx
    /\ res_chan = <<>>
    /\ \E i, j \in 1..Len(shards) :
          i # j /\ shards[i].st = "running" /\ shards[j].st = "queued"

\* C5 as claimed: the responses of a task are in ascending order of the
\* start key of their ranges.
C5_AscendingStartKey ==
    \A j, k \in 1..Len(emitted) :
        j < k => StartLeq(ranges[emitted[j]].start_key, ranges[emitted[k]].start_key)

\* C5 as amended: the responses of a task are in the order in which the
\* results of their ranges were sent into the result channel, failures and
\* successes alike; each carries the raw start key and the outcome of the
\* range it answers.
C5_SendOrder ==
    /\ Len(emitted) <= Len(sent)
    /\ \A k \in 1..Len(emitted) :
          /\ emitted[k] = sent[k]
          /\ responses[k].start_key = RawStart(emitted[k])
          /\ (responses[k].error = "none") = (shards[emitted[k]].res = "ok")

\* Two responses out of start-key order: the later range failed its
\* snapshot or finished first.
C5_Witness ==
    /\ Len(emitted) >= 2
    /\ emitted[1] > emitted[2]
    /\ RequestOrdered
    /\ responses[1].error = "none"
    /\ responses[2].error # "none"

----------------------------------------------------------------------------
(* Failed ranges *)

Dispatched == 1..Len(shards)
ErrorResponse(i, kind) ==
    [start_key |-> RawStart(i), end_key |-> RawEnd(i), error |-> kind,
     files |-> <<>>]
AnsweredOnce == \A j \in 1..Len(ranges) : Cardinality(Answers(j)) = 1

\* The state of a range whose pipeline ended with the error `res`: nothing
\* of it is in the storage, at most one response answers it, and that
\* response has its key range, the error `kind` and no file; when the task
\* has returned with the caller still listening, every range is answered.
FailedRange(i, kind) ==
    /\ shards[i].st = "done"
    /\ shards[i].written = 0
    /\ shards[i].nfiles = 0
    /\ FileName(i) \notin sink
    /\ Cardinality(Answers(i)) <= 1
    /\ \A k \in Answers(i) : responses[k] = ErrorResponse(i, kind)
    /\ (Done /\ resp_rx) => AnsweredOnce

\* C6: a range whose snapshot fails is never handed to the pool (no scanner
\* and no SST writer exist for it), nothing is saved for it, and its only
\* response carries its key range, a region error and no file; the other
\* ranges of the task are answered as well.
C6_SnapshotFailure ==
    /\ [](\A i \in Dispatched :
            shards[i].res = "snap_err" =>
                FailedRange(i, "region_error") /\ ~shards[i].discarded)
    /\ [][\A i \in 1..Len(shards') :
            shards'[i].res = "snap_err" => ~InPool(shards[i]) /\ ~InPool(shards'[i])]_vars

\* A finished task, one range failed at its snapshot and was answered,
\* another went through the pool and was saved.
C6_Witness ==
    /\ Done /\ resp_rx
    /\ \E i, j \in Dispatched :
          /\ shards[i].res = "snap_err"
          /\ Answers(i) # {}
          /\ shards[j].res = "ok"
          /\ FileName(j) \in sink

\* C7: a range whose scan fails is aborted: save is not called, nothing of
\* it is in the storage, and its only response carries its key range, a kv
\* error and no file, also when batches had been written before the error.
C7_ScanFailure ==
    \A i \in Dispatched :
        shards[i].res = "scan_err" => FailedRange(i, "kv_error")

\* A scan failed after a batch had been written, and its response is out.
C7_Witness ==
    \E i \in Dispatched :
        /\ shards[i].res = "scan_err"
        /\ shards[i].discarded
        /\ Answers(i) # {}

\* C8: a task with start_ts != end_ts enumerates nothing, dispatches
\* nothing, saves nothing and emits no response; when it has run, the
\* response sender is dropped.
C8_IncrementalDropped ==
    task.start_ts # task.end_ts =>
        /\ pc \in {"run", "done"}
        /\ ranges = <<>> /\ shards = <<>> /\ next = 0
        /\ res_chan = <<>> /\ sent = <<>>
        /\ sink = {}
        /\ responses = <<>>
        /\ Done => ~resp_tx

\* An incremental task has run while the caller listens.
C8_Witness == task.start_ts # task.end_ts /\ Done /\ resp_rx /\ regions # <<>>

\* C9: in a response without error every file has the response's key range
\* and start_version = end_version = the request's end_version.
C9_FilesCarryRangeAndVersion ==
    \A k \in 1..Len(responses) :
        responses[k].error = "none" =>
            \A f \in 1..Len(responses[k].files) :
                LET file == responses[k].files[f] IN
                /\ file.start_key = responses[k].start_key
                /\ file.end_key = responses[k].end_key
                /\ file.start_version = task.end_ts
                /\ file.end_version = task.end_ts

\* A successful response with two files and a bounded key range.
C9_Witness ==
    \E k \in 1..Len(responses) :
        /\ responses[k].error = "none"
        /\ Len(responses[k].files) = 2
        /\ responses[k].start_key # <<>>
        /\ responses[k].end_key # <<>>

----------------------------------------------------------------------------
(* The caller closes the response channel *)

\* C10: once the caller has dropped the response receiver no response is
\* emitted any more; the first send that fails ends handle_backup_task;
\* every pipeline in the pool still runs to its end without panicking, and
\* what it sends after the task has returned is not queued anywhere.
C10_CallerGone ==
    /\ [](\A i \in Dispatched : shards[i].st # "panicked")
    /\ [](~res_rx => res_chan = <<>>)
    /\ [][~resp_rx => responses' = responses]_vars
    /\ [][(~resp_rx /\ pc = "recv" /\ res_chan # <<>> /\ pc' # pc)
            => (pc' = "done" /\ ~res_rx' /\ ~resp_tx')]_vars
    /\ [][~res_rx => (sent' = sent /\ res_chan' = res_chan)]_vars
    /\ (~resp_rx /\ pc \in {"dispatch", "recv"})
          ~> (Done /\ \A i \in Dispatched : shards[i].st = "done")

\* The task returned on a failed send while a pipeline was still in the
\* pool; the pipeline then saved its files and its result went nowhere.
C10_Witness ==
    /\ Done /\ ~resp_rx
    /\ \E i \in Dispatched :
          /\ shards[i].res = "ok"
          /\ FileName(i) \in sink
          /\ \A k \in 1..Len(sent) : sent[k] # i
    /\ \E j \in Dispatched : \E k \in 1..Len(sent) :
          sent[k] = j /\ Answers(j) = {}

----------------------------------------------------------------------------
(* The worker pool *)

----------------------------------------------------------------------------
(* Failures before the enumeration *)

\* C12: when seek_region fails, seek_backup_range yields no BackupRange;
\* handle_backup_task then spawns no pipeline, takes no snapshot, saves
\* nothing and emits no response, and still returns with the response sender
\* dropped.
C12_SeekFailure ==
    /\ [](seek_res = "err" =>
            /\ ranges = <<>> /\ shards = <<>> /\ next = 0
            /\ res_chan = <<>> /\ sent = <<>>
            /\ sink = {}
            /\ responses = <<>>
            /\ pc \in {"dispatch", "recv", "done"})
    /\ (seek_res = "err") ~> (Done /\ ~resp_tx /\ ~res_rx)

\* The task has returned after a failed seek over a registry whose regions
\* are led by this store, the caller still listening.
C12_Witness ==
    /\ seek_res = "err"
    /\ Done /\ resp_rx /\ ~resp_tx
    /\ RequestOrdered
    /\ \A k \in 1..Len(regions) : regions[k].role = "Leader"

\* C15: Task::new fails exactly when the path of the request is empty or
\* names no storage the endpoint can create; a request whose task was not
\* created is never enumerated, takes no snapshot, saves nothing and gets no
\* response.
C15_TaskNewRejects ==
    /\ pc = "new" <=> storage.state = "unset"
    /\ pc = "rejected" <=> storage.state = "err"
    /\ storage.state = "err" <=>
          (pc # "new" /\ (storage.url = <<>> \/ storage.url[1] \notin Schemes))
    /\ pc = "rejected" =>
          /\ seek_res = "none"
          /\ ranges = <<>> /\ shards = <<>> /\ next = 0
          /\ res_chan = <<>> /\ sent = <<>>
          /\ ~res_tx /\ ~res_rx
          /\ sink = {}
          /\ responses = <<>>

\* Task::new has failed on the empty path of a full-backup request over
\* regions led by this store.
C15_Witness ==
    /\ pc = "rejected"
    /\ storage.url = <<>>
    /\ task.start_ts = task.end_ts
    /\ RequestOrdered
    /\ \A k \in 1..Len(regions) : regions[k].role = "Leader"

----------------------------------------------------------------------------
(* Roles and gaps *)

RegionSet == {regions[k] : k \in 1..Len(regions)}
Enumerated == {ranges[i].region : i \in 1..Len(ranges)}

\* C13: once seek_region has run the callback, every BackupRange, and so
\* every response, belongs to a region of the registry that this store
\* leads and lies inside that region; a request that meets no such region
\* has no range and no response; and every led region that the request
\* meets is enumerated, whatever the roles of the regions before it.
C13_OnlyLedRegions ==
    seek_res = "ok" =>
        /\ \A i \in 1..Len(ranges) :
              /\ ranges[i].region \in RegionSet
              /\ ranges[i].region.role = "Leader"
              /\ StartLeq(RegionStart(ranges[i].region), ranges[i].start_key)
              /\ EndLeq(ranges[i].end_key, RegionEnd(ranges[i].region))
        /\ \A k \in 1..Len(emitted) : emitted[k] \in 1..Len(ranges)
        /\ Expected = {} => (ranges = <<>> /\ responses = <<>>)
        /\ pc # "panicked" => \A k \in Expected : regions[k] \in Enumerated

\* C13 on the requests whose start key is below their end key.
C13_OrderedRequest == RequestOrdered => C13_OnlyLedRegions

\* A led region is enumerated behind a region that is not led, inside an
\* ordered request.
C13_SkippedFollower ==
    /\ seek_res = "ok"
    /\ RequestOrdered
    /\ \E k \in 1..Len(regions) : \E j \in 1..(k - 1) :
          /\ regions[j].role = "Follower"
          /\ StartBeforeEnd(Clipped(j)[1], Clipped(j)[2])
          /\ regions[k] \in Enumerated

----------------------------------------------------------------------------
(* Repeated runs *)

\* What a task must emit, as a function of the request, the registry and the
\* outcome of each range's pipeline alone.
RequestRanges ==
    seek_backup_range(regions, key_from_task(task.start_key),
                      key_from_task(task.end_key)).ranges
ExpectedError(res) ==
    CASE res = "ok" -> "none"
      [] res = "snap_err" -> "region_error"
      [] res = "scan_err" -> "kv_error"
      [] OTHER -> "other"
ExpectedFile(i, k) ==
    [name |-> <<FileName(i), k>>, start_key |-> RawStart(i), end_key |-> RawEnd(i),
     start_version |-> task.start_ts, end_version |-> task.end_ts]
ExpectedResponse(i) ==
    [start_key |-> RawStart(i), end_key |-> RawEnd(i),
     error |-> ExpectedError(shards[i].res),
     files |-> [k \in 1..shards[i].nfiles |-> ExpectedFile(i, k)]]

----------------------------------------------------------------------------
(* The clipping assertion *)

\* C16: the assertion of seek_backup_range holds for every request and
\* every registry: the enumeration never panics.
C16_AssertNeverFails == pc # "panicked"

\* C16 on the requests whose start key differs from their end key.
C16_DistinctBounds == RequestStart # RequestEnd => C16_AssertNeverFails

----------------------------------------------------------------------------
(* The result channel *)

\* C17: while the caller listens, the tuples answered so far followed by the
\* tuples still queued are exactly the tuples sent into the result channel,
\* in the order they were sent: each response answers the oldest queued
\* tuple and removes that tuple only, no tuple is answered twice or lost,
\* and when the task returns every sent tuple has been answered in send
\* order.
C17_FifoOrder ==
    /\ []((resp_rx /\ res_rx) => emitted \o res_chan = sent)
    /\ []((Done /\ resp_rx) => emitted = sent)
    /\ [](\A j, k \in 1..Len(sent) : j # k => sent[j] # sent[k])
    /\ [][responses' # responses =>
            /\ resp_rx /\ res_chan # <<>>
            /\ emitted' = Append(emitted, Head(res_chan))
            /\ res_chan' = Tail(res_chan)
            /\ Len(responses') = Len(responses) + 1
            /\ SubSeq(responses', 1, Len(responses)) = responses]_vars

\* The second range finished first and is answered; the tuple of the first
\* range waits in the channel behind it.
C17_Witness ==
    /\ resp_rx /\ pc = "recv"
    /\ emitted = <<2>>
    /\ res_chan = <<1>>
    /\ sent = <<2, 1>>

----------------------------------------------------------------------------
(* Threads *)

\* A step of the thread that runs the task: it moves the task's position,
\* its dispatch loop or its response stream.
TaskThreadStep == pc' # pc \/ next' # next \/ responses' # responses

----------------------------------------------------------------------------
(* The scan loop of one range *)

Saved(i) == FileName(i) \in sink

----------------------------------------------------------------------------
(* File names *)

\* Store ids, region ids and versions of one, two and three digits, some a
\* prefix or a suffix of another.
NameNumbers == {1, 2, 11, 12, 21, 111}
NameTriples == NameNumbers \X NameNumbers \X NameNumbers
NameOf(t) == backup_file_name(t[1], [id |-> t[2], version |-> t[3]])
NamesInjective == \A a, b \in NameTriples : a # b => NameOf(a) # NameOf(b)

\* C20: the ranges of one task belong to pairwise different regions (each
\* region is enumerated at most once) and have pairwise different file
\* names; the file name is different for different (store id, region id,
\* version) triples; so two pipelines of a task never save under one name
\* and the storage holds one name per saved range.
C20_DistinctFileNames ==
    /\ NamesInjective
    /\ \A i, j \in 1..Len(ranges) :
          i # j => /\ ranges[i].region.id # ranges[j].region.id
                   /\ FileName(i) # FileName(j)
    /\ Cardinality(sink) = Cardinality({i \in Dispatched : shards[i].res = "ok"})

\* Both ranges of a task were saved: the storage holds two names.
C20_Witness ==
    /\ Len(ranges) = 2
    /\ \A i \in Dispatched : FileName(i) \in sink
    /\ Cardinality(sink) = 2

----------------------------------------------------------------------------
(* Raw keys of a response *)

\* `raw` is the raw form of the clipped bound `k`: the empty key for None,
\* otherwise the key whose encoding is the bound.
IsRawOf(raw, k) ==
    IF k.some THEN raw # <<>> /\ encode_bytes(raw) = k.key ELSE raw = <<>>

\* The bound `k` of a range is the request's key, or a boundary of its region.
FromRequest(k) == k \in {RequestStart, RequestEnd}
FromRegion(k, region) == k \in {RegionStart(region), RegionEnd(region)}

\* C21: every clipped bound of every enumerated range is None, the encoded
\* request key or a boundary of the range's region, and decodes to a raw
\* key; the receive loop never panics on a bound; and the start and end key
\* of each response are the raw forms of the clipped bounds of the range it
\* answers, the empty key standing for None.
C21_ResponseKeysAreRaw ==
    /\ [](\A i \in 1..Len(ranges) :
            /\ FromRequest(ranges[i].start_key)
                  \/ FromRegion(ranges[i].start_key, ranges[i].region)
            /\ FromRequest(ranges[i].end_key)
                  \/ FromRegion(ranges[i].end_key, ranges[i].region)
            /\ into_raw(ranges[i].start_key).ok
            /\ into_raw(ranges[i].end_key).ok
            /\ IsRawOf(RawStart(i), ranges[i].start_key)
            /\ IsRawOf(RawEnd(i), ranges[i].end_key))
    /\ [][pc = "recv" => pc' # "panicked"]_vars
    /\ [](\A k \in 1..Len(responses) :
            /\ IsRawOf(responses[k].start_key, ranges[emitted[k]].start_key)
            /\ IsRawOf(responses[k].end_key, ranges[emitted[k]].end_key))

\* Two responses of a request for the whole key space: the end key of one
\* and the start key of the other are the boundary between their regions,
\* which the request did not name; their other bounds are None.
C21_Witness ==
    \E j, k \in 1..Len(responses) :
        /\ ~RequestStart.some /\ ~RequestEnd.some
        /\ responses[j].start_key = <<>>
        /\ responses[j].end_key = RawKeySeq[1]
        /\ responses[k].start_key = RawKeySeq[1]
        /\ responses[k].end_key = <<>>

----------------------------------------------------------------------------
(* Order of the enumeration *)

\* a < b as start keys (None is the least start key).
StartLess(a, b) == b.some /\ (~a.some \/ LexLess(a.key, b.key))

\* The range that ends at `hi` lies wholly before the range that starts at
\* `lo` (None is the greatest end key and the least start key).
EndsBefore(hi, lo) == hi.some /\ lo.some /\ LexLeq(hi.key, lo.key)

\* C22: over a registry whose regions are ordered and do not overlap, the
\* ranges seek_backup_range has sent are in strictly ascending order of
\* their clipped start keys and pairwise disjoint: each range ends at or
\* before the start of every range sent after it.
C22_AscendingDisjoint ==
    \A i, j \in 1..Len(ranges) :
        i < j => /\ StartLess(ranges[i].start_key, ranges[j].start_key)
                 /\ EndsBefore(ranges[i].end_key, ranges[j].start_key)
                 /\ EndsBefore(RegionEnd(ranges[i].region),
                               RegionStart(ranges[j].region))

\* Two ranges of a request bounded on both sides: the first starts at the
\* request's start key inside its region, the second ends at the request's
\* end key inside its region.
C22_Witness ==
    /\ Sought
    /\ Len(ranges) = 2
    /\ RequestStart.some /\ RequestEnd.some
    /\ ranges[1].start_key = RequestStart
    /\ RegionStart(ranges[1].region) # RequestStart
    /\ ranges[2].end_key = RequestEnd
    /\ RegionEnd(ranges[2].region) # RequestEnd

----------------------------------------------------------------------------
(* Shape of a response *)

ErrorResults == {"snap_err", "writer_err", "scan_err", "write_err", "save_err"}
ErrorKinds == {"region_error", "kv_error", "other"}

\* C23: every response either has no error and carries the files its
\* range's save returned, as many and under the names save gave them, or
\* has an error and no file at all, its range having ended with an error at
\* the snapshot, the writer's creation, a scan, a write or the save; no
\* response has an error and files.
C23_ErrorOrFiles ==
    \A k \in 1..Len(responses) :
        LET r == responses[k]
            i == emitted[k]
        IN  /\ r.error \in ErrorKinds \cup {"none"}
            /\ r.error = "none" =>
                  /\ shards[i].res = "ok"
                  /\ Len(r.files) = shards[i].nfiles
                  /\ \A f \in 1..Len(r.files) : r.files[f].name = <<FileName(i), f>>
            /\ r.error \in ErrorKinds =>
                  /\ shards[i].res \in ErrorResults
                  /\ r.files = <<>>
            /\ ~(r.error # "none" /\ r.files # <<>>)

\* Two responses with an error: one range failed at its save after a batch
\* was written, the other at a write.
C23_Witness ==
    \E j, k \in 1..Len(responses) :
        /\ shards[emitted[j]].res = "save_err" /\ shards[emitted[j]].discarded
        /\ shards[emitted[k]].res = "write_err"
        /\ responses[j].error = "other" /\ responses[k].error = "other"

----------------------------------------------------------------------------
(* Dispatch before the first response *)

\* Every enumerated range has had its snapshot attempt.
AllDispatched ==
    next = Len(ranges) /\ \A i \in Dispatched : shards[i].st # "new"

\* C24: the dispatch loop takes the ranges one after another in enumeration
\* order, each snapshot attempt on the task's thread; no response exists,
\* and none is emitted, before every enumerated range has had its snapshot
\* attempt and the task's own result sender is dropped; until then results
\* of pipelines that have already finished wait in the result channel.
C24_DispatchBeforeResponses ==
    /\ [](responses # <<>> => (AllDispatched /\ ~res_tx /\ pc \in {"recv", "done"}))
    /\ [](pc = "dispatch" =>
            /\ responses = <<>> /\ res_tx
            /\ res_chan = sent
            /\ \A i \in Dispatched : (shards[i].st = "new") = (i > next))
    /\ [][next' # next =>
            /\ pc = "dispatch" /\ pc' = "dispatch"
            /\ next' = next + 1
            /\ shards[next'].st = "new" /\ shards'[next'].st # "new"
            /\ \A i \in Dispatched : i # next' => shards'[i] = shards[i]]_vars
    /\ [][responses' # responses => (AllDispatched /\ ~res_tx /\ pc = "recv")]_vars

\* The pipeline of the first range has saved its files and sent its result
\* while the second range still waits for its snapshot: the result is
\* queued and no response is out.
C24_Witness ==
    /\ pc = "dispatch"
    /\ Len(ranges) = 2 /\ next = 1
    /\ shards[1].res = "ok" /\ shards[1].st = "done"
    /\ res_chan = <<1>>
    /\ shards[2].st = "new"
    /\ responses = <<>> /\ resp_rx

====
